---- MODULE Spec2Model ----
(***************************************************************************)
(* Color It AI (src/App/Color It v0.9.py): the asynchronous colorization   *)
(* model of ImageColorizerApp.                                             *)
(*                                                                         *)
(* Two threads take steps: the interactive (Tk main loop) thread, which    *)
(* runs one event handler at a time, and the worker of                     *)
(* ThreadPoolExecutor(max_workers=1), which runs _colorize_image_thread    *)
(* for one queued path after the other.  The worker writes the fields      *)
(* original_image_array and colorized_image_array itself and schedules     *)
(* the rest with self.after(0, ...); the handlers of the interactive       *)
(* thread read those fields without any lock.                              *)
(*                                                                         *)
(* An image array is modelled by the number of the job that produced it    *)
(* (0 is None); its pixels are a function of that job's path.              *)
(***************************************************************************)
EXTENDS Integers, Sequences, FiniteSets

\* ---------------------------------------------------------------- bounds
\* submissions (_load_image calls) followed in one run
MaxJobs == 2

\* ------------------------------------------------------ program constants
\* ThreadPoolExecutor(max_workers=1)
max_workers == 1

\* ---------------------------------------------------------------- inputs
\* a path is <<directory, base name>>; files named "notimage" do not decode
Paths == { <<"d1", "x.png">>, <<"d2", "y.png">>, <<"d1", "notimage">> }

\* cv2.imread(path) returns an image (TRUE) or None (FALSE)
imread(path) == path[2] # "notimage"

\* os.path.basename(path)
basename(path) == path[2]

Jobs == 1..MaxJobs

VARIABLES
    phase,                  \* "new" | "constructed" | "mainloop" | "operable"
    net,                    \* self.net: "loaded" | "uncalibrated" | "missing"
    loadErrors,             \* error dialogs shown by _load_model
    quitFlag,               \* Tk's quit request, set by self.quit()
    jobPath,                \* sequence: the path of every submitted job
    pc,                     \* sequence: where every submitted job is
    afterQueue,             \* callbacks scheduled with self.after(0, ...), FIFO
    original_image_array,   \* self.original_image_array (job number, 0 = None)
    colorized_image_array,  \* self.colorized_image_array (job number, 0 = None)
    filename,               \* self.filename
    bw_image,               \* what bw_image_label shows (job number, 0 = text)
    color_image,            \* what color_image_label shows (job number, 0 = text)
    progress_label,         \* text of self.progress_label
    save_btn,               \* state of self.save_btn
    uiPc,                   \* "idle" | "resize_mid": position of the interactive thread
    uiShow,                 \* job whose _show_images is running, 0 if none
    writeLog,               \* history: <<thread, field, job>> of every write of result state
    startLog,               \* history: jobs in the order they started
    finishLog,              \* history: <<job, outcome>> in the order jobs ended
    deliverLog,             \* history: <<kind, job>> of every callback run
    lastSave,               \* history: <<what cv2.imwrite did, dialog shown>> of the last save
    pipe                    \* the arrays of one run of lines 254-277, step by step

appVars == << phase, net, loadErrors, quitFlag, jobPath, pc, afterQueue,
              original_image_array, colorized_image_array, filename,
              bw_image, color_image, progress_label, save_btn, uiPc, uiShow,
              writeLog, startLog, finishLog, deliverLog, lastSave >>

vars == << appVars, pipe >>

startupVars == << phase, net, loadErrors, quitFlag >>
jobVars     == << jobPath, pc >>
resultVars  == << original_image_array, colorized_image_array, filename >>
viewVars    == << bw_image, color_image >>
widgetVars  == << progress_label, save_btn >>
uiVars      == << uiPc, uiShow >>
logVars     == << writeLog, startLog, finishLog, deliverLog >>
saveVars    == << lastSave >>

nSubmitted == Len(jobPath)

\* positions of a job that is on a worker thread
RunningPcs == { "decode", "infer", "post", "exc1", "exc2", "bad1", "bad2" }

Running == { j \in 1..nSubmitted : pc[j] \in RunningPcs }

\* the executor's work queue: submitted jobs no worker has taken, oldest first
Queued == { j \in 1..nSubmitted : pc[j] = "queued" }

Min(S) == CHOOSE x \in S : \A y \in S : x <= y

\* ------------------------------------------------------------------ Init
\* the fields of the application after the first lines of __init__
AppInit ==
    /\ phase = "new"
    /\ net = "missing"
    /\ loadErrors = 0
    /\ quitFlag = FALSE
    /\ jobPath = << >>
    /\ pc = << >>
    /\ afterQueue = << >>
    /\ original_image_array = 0
    /\ colorized_image_array = 0
    /\ filename = ""
    /\ bw_image = 0
    /\ color_image = 0
    /\ progress_label = ""
    /\ save_btn = "none"
    /\ uiPc = "idle"
    /\ uiShow = 0
    /\ writeLog = << >>
    /\ startLog = << >>
    /\ finishLog = << >>
    /\ deliverLog = << >>
    /\ lastSave = << "none", "none" >>

\* no run of the pipeline is followed step by step
PipeOff == [at |-> "off"]

Init == AppInit /\ pipe = PipeOff

\* the Tk event loop is dispatching events and timer callbacks
MainLoopRunning == phase \in { "mainloop", "operable" } /\ ~quitFlag

\* the interactive thread is between two handlers
UiIdle == MainLoopRunning /\ uiPc = "idle"

SetPc(j, p) == [pc EXCEPT ![j] = p]

\* -------------------------------------------------------------- start-up
\* __init__ with _load_model: readNetFromCaffe fails (no self.net), or np.load
\* fails after it (self.net is set but not calibrated), or everything loads.
\* A failure shows one error dialog and calls self.quit(); __init__ goes on
\* and registers _setup_main_ui with self.after(2000, ...) all the same.
init_app(load) ==
    /\ phase = "new"
    /\ phase' = "constructed"
    /\ net' = CASE load = "ok"        -> "loaded"
                [] load = "no_points" -> "uncalibrated"
                [] load = "no_net"    -> "missing"
    /\ loadErrors' = IF load = "ok" THEN loadErrors ELSE loadErrors + 1
    /\ quitFlag' = (load # "ok")
    /\ UNCHANGED << saveVars, pipe,
                    jobVars, afterQueue, resultVars, viewVars, widgetVars,
                    uiVars, logVars >>

\* app.mainloop(): Tk's mainloop clears the quit request when it is entered
\* and then dispatches until quit is requested again
mainloop ==
    /\ phase = "constructed"
    /\ phase' = "mainloop"
    /\ quitFlag' = FALSE
    /\ UNCHANGED << saveVars, pipe,
                    net, loadErrors, jobVars, afterQueue, resultVars, viewVars,
                    widgetVars, uiVars, logVars >>

\* variant: the main window comes up with the save button enabled
setup_main_ui_save_enabled ==
    /\ phase = "mainloop"
    /\ UiIdle
    /\ phase' = "operable"
    /\ progress_label' = ""
    /\ save_btn' = "normal"
    /\ UNCHANGED << saveVars, pipe,
                    net, loadErrors, quitFlag, jobVars, afterQueue, resultVars,
                    viewVars, uiVars, logVars >>

\* _setup_main_ui, the callback of self.after(2000, ...): builds the widgets,
\* binds <Configure> and <<Drop>>, disables the save button
setup_main_ui ==
    /\ phase = "mainloop"
    /\ UiIdle
    /\ phase' = "operable"
    /\ progress_label' = ""
    /\ save_btn' = "disabled"
    /\ UNCHANGED << saveVars, pipe,
                    net, loadErrors, quitFlag, jobVars, afterQueue, resultVars,
                    viewVars, uiVars, logVars >>

\* ------------------------------------------------------------ submission
\* variant: the submission waits until the worker has nothing to do
load_image_when_idle(path) ==
    /\ phase = "operable"
    /\ UiIdle
    /\ nSubmitted < MaxJobs
    /\ \A j \in 1..nSubmitted : pc[j] = "done"
    /\ progress_label' = "Colorizing..."
    /\ jobPath' = Append(jobPath, path)
    /\ pc' = Append(pc, "queued")
    /\ UNCHANGED << saveVars, pipe,
                    startupVars, afterQueue, resultVars, viewVars,
                    save_btn, uiVars, logVars >>

\* _load_image(path), from the file dialog or a drop: _start_spinner, then
\* executor.submit
load_image(path) ==
    /\ phase = "operable"
    /\ UiIdle
    /\ nSubmitted < MaxJobs
    /\ progress_label' = "Colorizing..."
    /\ jobPath' = Append(jobPath, path)
    /\ pc' = Append(pc, "queued")
    /\ UNCHANGED << saveVars, pipe,
                    startupVars, afterQueue, resultVars, viewVars, save_btn,
                    uiVars, logVars >>

\* ---------------------------------------------------------------- worker
Max(S) == CHOOSE x \in S : \A y \in S : x >= y

\* variant: the executor hands out the newest queued work item first
NextJobNewest == Max(Queued)

\* the work item a free worker takes: the oldest queued one
NextJob == Min(Queued)

\* variant: a work item is started whether or not a worker is free
StartJobNoLimit(j) ==
    /\ Queued # {}
    /\ j = Min(Queued)
    /\ pc' = SetPc(j, "decode")
    /\ startLog' = Append(startLog, j)
    /\ UNCHANGED << saveVars, pipe,
                    startupVars, jobPath, afterQueue, resultVars, viewVars,
                    widgetVars, uiVars, writeLog, finishLog, deliverLog >>

\* variant: the worker takes no further work item once a job has failed
StartJobUnlessFailed(j) ==
    /\ Queued # {}
    /\ j = Min(Queued)
    /\ Cardinality(Running) < max_workers
    /\ \A i \in DOMAIN finishLog : finishLog[i][2] # "Failed"
    /\ pc' = SetPc(j, "decode")
    /\ startLog' = Append(startLog, j)
    /\ UNCHANGED << saveVars, pipe,
                    startupVars, jobPath, afterQueue, resultVars, viewVars,
                    widgetVars, uiVars, writeLog, finishLog, deliverLog >>

\* a worker of the executor takes the next work item
StartJob(j) ==
    /\ Queued # {}
    /\ j = NextJob
    /\ Cardinality(Running) < max_workers
    /\ pc' = SetPc(j, "decode")
    /\ startLog' = Append(startLog, j)
    /\ UNCHANGED << saveVars, pipe,
                    startupVars, jobPath, afterQueue, resultVars, viewVars,
                    widgetVars, uiVars, writeLog, finishLog, deliverLog >>

\* lines 254-262: imread; None leads to the "Failed to load image" branch; the
\* grayscale conversion may raise; otherwise original_image_array is assigned
Decode(j, raises) ==
    /\ j \in 1..nSubmitted
    /\ pc[j] = "decode"
    /\ IF ~imread(jobPath[j])
         THEN /\ pc' = SetPc(j, "bad1")
              /\ UNCHANGED << original_image_array, writeLog >>
         ELSE IF raises
         THEN /\ pc' = SetPc(j, "exc1")
              /\ UNCHANGED << original_image_array, writeLog >>
         ELSE /\ pc' = SetPc(j, "infer")
              /\ original_image_array' = j
              /\ writeLog' = Append(writeLog, << "worker", "original", j >>)
    /\ UNCHANGED << saveVars, pipe,
                    startupVars, jobPath, afterQueue, colorized_image_array,
                    filename, viewVars, widgetVars, uiVars, startLog, finishLog,
                    deliverLog >>

\* lines 265-277: LAB conversion, forward pass, reconstruction; any of it may
\* raise (self.net is absent after a failed readNetFromCaffe); otherwise
\* colorized_image_array is assigned
Infer(j, raises) ==
    /\ j \in 1..nSubmitted
    /\ pc[j] = "infer"
    /\ IF raises \/ net = "missing"
         THEN /\ pc' = SetPc(j, "exc1")
              /\ UNCHANGED << colorized_image_array, writeLog >>
         ELSE /\ pc' = SetPc(j, "post")
              /\ colorized_image_array' = j
              /\ writeLog' = Append(writeLog, << "worker", "colorized", j >>)
    /\ UNCHANGED << saveVars, pipe,
                    startupVars, jobPath, afterQueue, original_image_array,
                    filename, viewVars, widgetVars, uiVars, startLog, finishLog,
                    deliverLog >>

\* self.after(0, f) called on the worker: the call is handed to the
\* interactive thread, which registers the timer between two handlers; the
\* worker waits for that.  Timers of equal delay fire in registration order.
Schedule(kind, j) == Append(afterQueue, << kind, j >>)

\* the job leaves the worker with its terminal outcome
Finish(j, outcome) ==
    /\ pc' = SetPc(j, "done")
    /\ finishLog' = Append(finishLog, << j, outcome >>)

\* line 279: self.after(0, lambda: self._show_images(basename(path)))
ScheduleShow(j) ==
    /\ j \in 1..nSubmitted
    /\ pc[j] = "post"
    /\ UiIdle
    /\ afterQueue' = Schedule("show", j)
    /\ Finish(j, "Succeeded")
    /\ UNCHANGED << saveVars, pipe,
                    startupVars, jobPath, resultVars, viewVars, widgetVars,
                    uiVars, writeLog, startLog, deliverLog >>

\* line 256: self.after(0, showerror "Failed to load image.")
BadFileError(j) ==
    /\ j \in 1..nSubmitted
    /\ pc[j] = "bad1"
    /\ UiIdle
    /\ afterQueue' = Schedule("error", j)
    /\ pc' = SetPc(j, "bad2")
    /\ UNCHANGED << saveVars, pipe,
                    startupVars, jobPath, resultVars, viewVars, widgetVars,
                    uiVars, logVars >>

\* variant: the return of line 258 is missing, so the job runs on into
\* cvtColor(None), which raises
BadFileStopNoReturn(j) ==
    /\ j \in 1..nSubmitted
    /\ pc[j] = "bad2"
    /\ UiIdle
    /\ afterQueue' = Append(afterQueue, << "stop", j >>)
    /\ pc' = SetPc(j, "exc1")
    /\ UNCHANGED << saveVars, pipe,
                    startupVars, jobPath, resultVars, viewVars, widgetVars,
                    uiVars, logVars >>

\* lines 257-258: self.after(0, _stop_spinner("Error", "danger")); return
BadFileStop(j) ==
    /\ j \in 1..nSubmitted
    /\ pc[j] = "bad2"
    /\ UiIdle
    /\ afterQueue' = Schedule("stop", j)
    /\ Finish(j, "Failed")
    /\ UNCHANGED << saveVars, pipe,
                    startupVars, jobPath, resultVars, viewVars, widgetVars,
                    uiVars, writeLog, startLog, deliverLog >>

\* line 281: except Exception: self.after(0, showerror "An error occurred ...")
ExceptError(j) ==
    /\ j \in 1..nSubmitted
    /\ pc[j] = "exc1"
    /\ UiIdle
    /\ afterQueue' = Schedule("error", j)
    /\ pc' = SetPc(j, "exc2")
    /\ UNCHANGED << saveVars, pipe,
                    startupVars, jobPath, resultVars, viewVars, widgetVars,
                    uiVars, logVars >>

\* line 282: self.after(0, _stop_spinner("Error", "danger")); the work item ends
ExceptStop(j) ==
    /\ j \in 1..nSubmitted
    /\ pc[j] = "exc2"
    /\ UiIdle
    /\ afterQueue' = Schedule("stop", j)
    /\ Finish(j, "Failed")
    /\ UNCHANGED << saveVars, pipe,
                    startupVars, jobPath, resultVars, viewVars, widgetVars,
                    uiVars, writeLog, startLog, deliverLog >>

\* ---------------------------------------------------- interactive thread
\* _stop_spinner and _update_ui_state(True), the end of _show_images
\* (lines 307-309)
ShowDone ==
    /\ progress_label' = "Done"
    /\ save_btn' = "normal"

\* _resize_images up to line 337: the placeholder texts if an array is None,
\* nothing if the panel has no size yet, else the grayscale preview is
\* rendered from original_image_array as it is now.  TRUE in the third
\* component: the handler goes on to line 340.
ResizeFirst(panelOk) ==
    IF original_image_array = 0 \/ colorized_image_array = 0
      THEN << 0, 0, FALSE >>
    ELSE IF ~panelOk
      THEN << bw_image, color_image, FALSE >>
    ELSE << original_image_array, color_image, TRUE >>

\* variant: a result is dropped when a newer job has been submitted
show_images_latest_only(j, panelOk) ==
    /\ UiIdle
    /\ afterQueue # << >>
    /\ Head(afterQueue) = << "show", j >>
    /\ afterQueue' = Tail(afterQueue)
    /\ IF j < nSubmitted
         THEN UNCHANGED << filename, viewVars, widgetVars, uiVars, writeLog,
                           deliverLog >>
         ELSE /\ filename' = basename(jobPath[j])
              /\ writeLog' = Append(writeLog, << "ui", "filename", j >>)
              /\ deliverLog' = Append(deliverLog, << "show", j >>)
              /\ LET r == ResizeFirst(panelOk) IN
                   /\ bw_image' = r[1]
                   /\ color_image' = r[2]
                   /\ IF r[3]
                        THEN /\ uiPc' = "resize_mid"
                             /\ uiShow' = j
                             /\ UNCHANGED widgetVars
                        ELSE /\ ShowDone
                             /\ UNCHANGED uiVars
    /\ UNCHANGED << saveVars, pipe,
                    startupVars, jobVars, original_image_array,
                    colorized_image_array, startLog, finishLog >>

\* _show_images(name), lines 303-306, scheduled by the worker: file name and
\* titles, then _resize_images; lines 307-309 follow when that returns
show_images(j, panelOk) ==
    /\ UiIdle
    /\ afterQueue # << >>
    /\ Head(afterQueue) = << "show", j >>
    /\ afterQueue' = Tail(afterQueue)
    /\ filename' = basename(jobPath[j])
    /\ writeLog' = Append(writeLog, << "ui", "filename", j >>)
    /\ deliverLog' = Append(deliverLog, << "show", j >>)
    /\ LET r == ResizeFirst(panelOk) IN
         /\ bw_image' = r[1]
         /\ color_image' = r[2]
         /\ IF r[3]
              THEN /\ uiPc' = "resize_mid"
                   /\ uiShow' = j
                   /\ UNCHANGED widgetVars
              ELSE /\ ShowDone
                   /\ UNCHANGED uiVars
    /\ UNCHANGED << saveVars, pipe,
                    startupVars, jobVars, original_image_array,
                    colorized_image_array, startLog, finishLog >>

\* _resize_images(event), bound to <Configure> and run once 100 ms after the
\* set-up
resize_images(panelOk) ==
    /\ phase = "operable"
    /\ UiIdle
    /\ LET r == ResizeFirst(panelOk) IN
         /\ bw_image' = r[1]
         /\ color_image' = r[2]
         /\ uiPc' = IF r[3] THEN "resize_mid" ELSE "idle"
    /\ UNCHANGED << saveVars, pipe,
                    startupVars, jobVars, afterQueue, resultVars, widgetVars,
                    uiShow, logVars >>

\* _resize_images from line 340: the colorized preview is rendered from
\* colorized_image_array as it is now; a running _show_images then ends
ResizeSecond ==
    /\ MainLoopRunning
    /\ uiPc = "resize_mid"
    /\ color_image' = colorized_image_array
    /\ uiPc' = "idle"
    /\ uiShow' = 0
    /\ IF uiShow # 0 THEN ShowDone ELSE UNCHANGED widgetVars
    /\ UNCHANGED << saveVars, pipe,
                    startupVars, jobVars, afterQueue, resultVars, bw_image,
                    logVars >>

\* cv2.imwrite(path, array): it writes the file and returns True, or cannot
\* write it and returns False, or raises (no writer for the extension, no
\* image)
ImwriteOutcomes(array) ==
    IF array = 0 THEN { "raised" } ELSE { "written", "failed", "raised" }

\* lines 359-363: the dialog _save_image shows after cv2.imwrite: the return
\* value is not looked at, only an exception leads to the error dialog
SaveDialog(outcome) == IF outcome = "raised" THEN "error" ELSE "saved"

\* _save_image, the command of the save button: the file dialog, and unless
\* it is cancelled cv2.imwrite and one message box
save_image(cancel, outcome) ==
    /\ phase = "operable"
    /\ UiIdle
    /\ save_btn = "normal"
    /\ outcome \in ImwriteOutcomes(colorized_image_array)
    /\ lastSave' = IF cancel THEN lastSave
                             ELSE << outcome, SaveDialog(outcome) >>
    /\ UNCHANGED << pipe, startupVars, jobVars, afterQueue, resultVars,
                    viewVars, widgetVars, uiVars, logVars >>

\* the callback of line 256 or 281: the error dialog of job j
show_error(j) ==
    /\ UiIdle
    /\ afterQueue # << >>
    /\ Head(afterQueue) = << "error", j >>
    /\ afterQueue' = Tail(afterQueue)
    /\ deliverLog' = Append(deliverLog, << "error", j >>)
    /\ UNCHANGED << saveVars, pipe,
                    startupVars, jobVars, resultVars, viewVars, widgetVars,
                    uiVars, writeLog, startLog, finishLog >>

\* the callback of line 257 or 282: _stop_spinner("Error", "danger")
stop_spinner_error(j) ==
    /\ UiIdle
    /\ afterQueue # << >>
    /\ Head(afterQueue) = << "stop", j >>
    /\ afterQueue' = Tail(afterQueue)
    /\ progress_label' = "Error"
    /\ deliverLog' = Append(deliverLog, << "stop", j >>)
    /\ UNCHANGED << saveVars, pipe,
                    startupVars, jobVars, resultVars, viewVars, save_btn,
                    uiVars, writeLog, startLog, finishLog >>

\* ------------------------------------------------------------------ Next
Worker ==
    \E j \in Jobs :
        \/ StartJob(j)
        \/ \E raises \in BOOLEAN : Decode(j, raises)
        \/ \E raises \in BOOLEAN : Infer(j, raises)
        \/ ScheduleShow(j)
        \/ BadFileError(j)
        \/ BadFileStop(j)
        \/ ExceptError(j)
        \/ ExceptStop(j)

\* the handlers of the interactive thread that submit, render and deliver
Events ==
    \/ \E path \in Paths : load_image(path)
    \/ \E panelOk \in BOOLEAN : resize_images(panelOk)
    \/ ResizeSecond
    \/ \E j \in Jobs :
        \/ \E panelOk \in BOOLEAN : show_images(j, panelOk)
        \/ show_error(j)
        \/ stop_spinner_error(j)

Interactive ==
    \/ Events
    \/ \E cancel \in BOOLEAN, outcome \in { "written", "failed", "raised" } :
          save_image(cancel, outcome)

Startup ==
    \/ \E load \in { "ok", "no_points", "no_net" } : init_app(load)
    \/ mainloop
    \/ setup_main_ui

Next == Startup \/ Interactive \/ Worker

Spec == Init /\ [][Next]_vars

\* the callbacks registered with self.after(0, ...), run in registration order
Timers ==
    \E j \in Jobs :
        \/ \E panelOk \in BOOLEAN : show_images(j, panelOk)
        \/ show_error(j)
        \/ stop_spinner_error(j)

\* the scheduling the code's platform provides: a worker that has work goes
\* on; a handler that has begun runs to its end; and the Tk event loop, which
\* returns to idle again and again, serves the calls of the worker and
\* dispatches the timers that are due, however many <Configure> events arrive
\* _save_image writes no field of the application and is the only reader of
\* what it records, so the runs of the jobs are followed without it.
FairSpec ==
    /\ Init
    /\ [][Startup \/ Events \/ Worker]_vars
    /\ SF_vars(Worker)
    /\ SF_vars(Timers)
    /\ WF_vars(ResizeSecond)

\* ----------------------------------------- the arithmetic of one job
\* Lines 254-277 on one decoded image, followed array by array.  A shape is
\* <<rows, columns>> or <<rows, columns, channels>>, as numpy has it.  One
\* component of one pixel stands for all of them: clip, the product and the
\* cast work component by component.  A float is a whole number of Den-ths.

\* largest height and width of a decoded image
MaxDim == 3

\* the floats followed are the multiples of 1/Den
Den == 4

\* from -MaxMag to MaxMag
MaxMag == 2

\* the side of the plane given to the net (line 267)
NetSide == 224

\* the largest value of a uint8, the factor of line 277
MaxByte == 255

\* the sides the net's a/b output may have: the prototxt decides
NetOutSides == { 56, 224 }

Floats == (0 - MaxMag * Den)..(MaxMag * Den)

\* cv2.resize(array, (width, height)): dsize names the columns first
resize(shape, dsize) ==
    IF Len(shape) = 3 THEN << dsize[2], dsize[1], shape[3] >>
                      ELSE << dsize[2], dsize[1] >>

\* cv2.split(array)[0]: one channel
split0(shape) == << shape[1], shape[2] >>

\* variant: the target size is given rows first
AbSizeRowsFirst(shape) == << shape[1], shape[2] >>

\* line 272: the size (image.shape[1], image.shape[0]) the a/b planes are
\* resized to
AbSize(shape) == << shape[2], shape[1] >>

\* np.concatenate((L[:, :, np.newaxis], ab), axis=2): the rows and columns
\* must agree, the channels add up; << >> stands for the ValueError
concatenate(L, ab) ==
    IF L[1] = ab[1] /\ L[2] = ab[2] THEN << L[1], L[2], 1 + ab[3] >>
                                    ELSE << >>

\* variant: the values are left as they are
noclip(x, lo, hi) == x

\* np.clip(x, lo, hi)
clip(x, lo, hi) == IF x < lo THEN lo ELSE IF x > hi THEN hi ELSE x

\* (k * x).astype("uint8") for a float x of n Den-ths: the product is cut
\* towards zero and kept modulo 256
astype_uint8(k, n) ==
    LET p == k * n
        t == IF p >= 0 THEN p \div Den ELSE 0 - ((0 - p) \div Den)
    IN  t % (MaxByte + 1)

\* cv2.imread has returned an image of h rows and w columns, BGR
PipeInit ==
    /\ AppInit
    /\ \E h, w \in 1..MaxDim :
         pipe = [at |-> "image", image |-> << h, w, 3 >>]

\* lines 265-269: float image, LAB, the copy resized to 224 x 224 and its L
\* plane (shifted by 50, which changes no shape)
ToPlane ==
    /\ pipe.at = "image"
    /\ pipe' = [at |-> "plane", image |-> pipe.image, lab |-> pipe.image,
                plane |-> split0(resize(pipe.image, << NetSide, NetSide >>))]
    /\ UNCHANGED appVars

\* lines 270-271: the forward pass and the transpose give two planes of the
\* net's output size
Forward(side) ==
    /\ pipe.at = "plane"
    /\ pipe' = [at |-> "predicted", image |-> pipe.image, lab |-> pipe.lab,
                ab |-> << side, side, 2 >>]
    /\ UNCHANGED appVars

\* line 272: the a/b planes resized to the size of the image
ResizeAb ==
    /\ pipe.at = "predicted"
    /\ pipe' = [at |-> "ab", image |-> pipe.image, lab |-> pipe.lab,
                ab |-> resize(pipe.ab, AbSize(pipe.image))]
    /\ UNCHANGED appVars

\* lines 273-274: the L plane of the full-size LAB image, joined to a/b
Merge ==
    /\ pipe.at = "ab"
    /\ LET L == split0(pipe.lab)
           m == concatenate(L, pipe.ab)
       IN  pipe' = IF m = << >>
                     THEN [at |-> "raised", image |-> pipe.image]
                     ELSE [at |-> "merged", image |-> pipe.image, L |-> L,
                           ab |-> pipe.ab, colorized |-> m]
    /\ UNCHANGED appVars

\* line 275: LAB to BGR; a component may come out below 0 or above 1
ToBGR(x) ==
    /\ pipe.at = "merged"
    /\ pipe' = [at |-> "bgr", image |-> pipe.image,
                colorized |-> pipe.colorized, bgr |-> x]
    /\ UNCHANGED appVars

\* line 276: np.clip(colorized, 0, 1)
Clip ==
    /\ pipe.at = "bgr"
    /\ pipe' = [at |-> "clipped", image |-> pipe.image,
                colorized |-> pipe.colorized, bgr |-> pipe.bgr,
                clipped |-> clip(pipe.bgr, 0, Den)]
    /\ UNCHANGED appVars

\* line 277: (255 * colorized).astype("uint8")
ToUint8 ==
    /\ pipe.at = "clipped"
    /\ pipe' = [at |-> "done", image |-> pipe.image,
                colorized |-> pipe.colorized, bgr |-> pipe.bgr,
                byte |-> astype_uint8(MaxByte, pipe.clipped)]
    /\ UNCHANGED appVars

PipeNext ==
    \/ ToPlane
    \/ \E side \in NetOutSides : Forward(side)
    \/ ResizeAb
    \/ Merge
    \/ \E x \in Floats : ToBGR(x)
    \/ Clip
    \/ ToUint8

PipeSpec == PipeInit /\ [][PipeNext]_vars

\* ------------------------------------------------------- shared notions
Submitted(j) == j \in 1..nSubmitted

InLog(log, e) == \E i \in DOMAIN log : log[i] = e

Count(log, e) == Cardinality({ i \in DOMAIN log : log[i] = e })

Succeeded(j) == InLog(finishLog, << j, "Succeeded" >>)
Failed(j)    == InLog(finishLog, << j, "Failed" >>)

\* job j has left the try block through one of its two failure exits
Failing(j) == Submitted(j) /\ (pc[j] \in { "bad1", "bad2", "exc1", "exc2" } \/ Failed(j))

\* the outcome of job j has reached the interactive thread
Delivered(j) == InLog(deliverLog, << "show", j >>) \/ InLog(deliverLog, << "error", j >>)

\* the pixels of an image array are a function of the file it was decoded from
Pixels(a) == IF a = 0 THEN << >> ELSE jobPath[a]

\* the job of the last result delivered to the interactive thread, 0 if none
LastShown ==
    LET S == { i \in DOMAIN deliverLog : deliverLog[i][1] = "show" } IN
      IF S = {} THEN 0
      ELSE deliverLog[CHOOSE i \in S : \A k \in S : k <= i][2]

\* ------------------------------------------------------------------- C1
\* C1: results are applied to the visible state (grayscale array, colorized
\* array, file name) in submission order: no write of an earlier job's result
\* follows a write of a later job's result.
C1_MonotonicApplication ==
    \A i, k \in DOMAIN writeLog : i < k => writeLog[i][3] <= writeLog[k][3]

\* ------------------------------------------------------------------- C2
\* C2: the result state read by the interactive thread is written only by
\* the interactive thread, in a delivery step, after the job has finished;
\* never by the worker.
C2_OnlyInteractiveWrites ==
    \A i \in DOMAIN writeLog :
        /\ writeLog[i][1] = "ui"
        /\ Succeeded(writeLog[i][3])

\* ------------------------------------------------------------------- C3
\* C3: a job that fails publishes nothing: neither stored image nor the file
\* name comes from a job that has failed.
C3_NoPartialResult ==
    \A j \in Jobs : Failing(j) =>
        /\ original_image_array # j
        /\ colorized_image_array # j
        /\ ~InLog(writeLog, << "ui", "filename", j >>)

\* ------------------------------------------------------------------- C4
\* C4: after a failed model load the failure is reported once, the main UI
\* is never set up, no submission is accepted and no job is started.
C4_NoOperableStateWithoutModel ==
    loadErrors > 0 =>
        /\ loadErrors = 1
        /\ phase # "operable"
        /\ nSubmitted = 0
        /\ startLog = << >>

\* ------------------------------------------------------------------- C5
\* the step in which the interactive thread runs the _show_images callback
\* of job j
DeliverShow(j) ==
    /\ afterQueue # << >>
    /\ Head(afterQueue) = << "show", j >>
    /\ afterQueue' = Tail(afterQueue)

C6_OneJobAtATime ==
    /\ Cardinality(Running) <= 1
    /\ Cardinality({ j \in 1..nSubmitted : pc[j] = "infer" }) <= 1

\* witness of C6: a job is in its forward pass while another one is queued
C6_Witness ==
    \E j, k \in 1..nSubmitted : pc[j] = "infer" /\ pc[k] = "queued"

\* ------------------------------------------------------------------- C7
\* the entries of a log do not go back in their component f
NonDecreasing(log, f) ==
    \A i, k \in DOMAIN log : i < k => log[i][f] <= log[k][f]

\* C7: a submission made while a job is queued or running stays queued until
\* it is started, and jobs start, finish and are delivered in the order of
\* their submission: the i-th start and the i-th finish are job i's, a job
\* starts only when all jobs before it have finished, and callbacks of an
\* earlier job never run after one of a later job.
C7_SubmissionOrder ==
    /\ \A i \in DOMAIN startLog : startLog[i] = i
    /\ \A i \in DOMAIN finishLog : finishLog[i][1] = i
    /\ Len(finishLog) <= Len(startLog)
    /\ Len(startLog) <= Len(finishLog) + 1
    /\ NonDecreasing(deliverLog, 2)
    /\ \A j \in 1..nSubmitted :
         pc[j] \in { "queued" } \cup RunningPcs \cup { "done" }
    /\ \A j \in 1..nSubmitted : (pc[j] = "queued") = (j > Len(startLog))

\* witness of C7: job 2 has been submitted and waits in the queue while job 1,
\* started before it, is about to hand over its outcome
C7_Witness ==
    /\ Submitted(2)
    /\ pc[2] = "queued"
    /\ pc[1] \in { "post", "bad1", "exc1" }
    /\ startLog = << 1 >>

\* ------------------------------------------------------------------- C8
\* C8: once a job has failed, every submitted job, whether submitted before
\* or after the failure, is still executed and its outcome delivered.
C8_FailureDoesNotStopWorker ==
    \A j \in Jobs :
        ((\E f \in Jobs : Failing(f)) /\ Submitted(j))
            ~> (InLog(startLog, j) /\ Delivered(j))

\* witness of C8: job 1 has failed, and job 2 has been run and delivered
C8_Witness ==
    /\ Failed(1)
    /\ Submitted(2)
    /\ InLog(startLog, 2)
    /\ Delivered(2)

\* ------------------------------------------------------------------- C9
\* a job started once, ended once, and its outcome reached the interactive
\* thread as what it was: one display update for a success, one error
\* dialog (and one stop of the spinner) for a failure
ExactlyOnce(j) ==
    /\ Count(startLog, j) <= 1
    /\ Count(finishLog, << j, "Succeeded" >>) + Count(finishLog, << j, "Failed" >>) <= 1
    /\ Count(deliverLog, << "show", j >>) + Count(deliverLog, << "error", j >>) <= 1
    /\ Count(deliverLog, << "stop", j >>) <= 1
    /\ InLog(deliverLog, << "show", j >>) => Succeeded(j)
    /\ InLog(deliverLog, << "stop", j >>) => Failed(j) /\ InLog(deliverLog, << "error", j >>)
    /\ InLog(deliverLog, << "error", j >>) => ~Succeeded(j)
    /\ pc[j] = "done" => Succeeded(j) \/ Failed(j)

\* C9: every submitted job reaches exactly one terminal outcome, Succeeded
\* or Failed, without retry or cancellation, and the outcome is delivered to
\* the interactive thread exactly once: eventually, and never twice or as
\* both a success and an error.
C9_OneOutcomeDeliveredOnce ==
    /\ [](\A j \in 1..nSubmitted : ExactlyOnce(j))
    /\ \A j \in Jobs :
         Submitted(j) ~>
            /\ Submitted(j)
            /\ pc[j] = "done"
            /\ \/ Succeeded(j) /\ InLog(deliverLog, << "show", j >>)
               \/ Failed(j) /\ InLog(deliverLog, << "error", j >>)
                            /\ InLog(deliverLog, << "stop", j >>)

\* witness of C9: one job has succeeded and one has failed, and both
\* outcomes have been delivered
C9_Witness ==
    \E j, k \in 1..nSubmitted :
        /\ Succeeded(j) /\ InLog(deliverLog, << "show", j >>)
        /\ Failed(k) /\ InLog(deliverLog, << "stop", k >>)

\* ------------------------------------------------------------------ C10
\* C10: whenever a resize has rendered the two previews, they are the
\* grayscale and the colorized image of one job, the one whose result was
\* delivered last.
C10_PreviewsOfLastDelivered ==
    (uiPc = "idle" /\ bw_image # 0) =>
        /\ Pixels(bw_image) = Pixels(color_image)
        /\ LastShown # 0
        /\ Pixels(bw_image) = Pixels(LastShown)

\* ------------------------------------------------------------------ C11
\* C11: whenever the write of the colorized image fails, by an exception or
\* by the writer's return value, the user is shown an error and never the
\* confirmation that the image was saved.
C11_FailedSaveShowsError ==
    lastSave[1] \in { "failed", "raised" } => lastSave[2] = "error"

\* ------------------------------------------------------------------ C12
\* C12: a submission returns at once.  Whenever the interactive thread is
\* between two handlers, _load_image can run, whatever the worker is doing
\* (nothing, a job, a job with others queued behind it); and the step that
\* submits ends with the interactive thread idle again, the new job queued,
\* and no job started, advanced or finished by it.
C12_SubmitNeverWaits ==
    /\ []((phase = "operable" /\ UiIdle /\ nSubmitted < MaxJobs) =>
            ENABLED (\E path \in Paths : load_image(path)))
    /\ [][ nSubmitted' = nSubmitted + 1 =>
              /\ uiPc' = "idle"
              /\ pc'[nSubmitted + 1] = "queued"
              /\ \A j \in 1..nSubmitted : pc'[j] = pc[j]
              /\ UNCHANGED << startLog, finishLog, afterQueue >> ]_vars

\* witness of C12: job 2 was submitted while job 1 had not finished, and the
\* interactive thread is idle again while job 1 is still decoding
C12_Witness ==
    /\ nSubmitted = 2
    /\ pc[1] = "decode"
    /\ pc[2] = "queued"
    /\ uiPc = "idle"

\* ------------------------------------------------------------------ C13
\* C13: for a decoded image of any height and width, the a/b planes are
\* resized to exactly that height and width, whatever the net's output size,
\* the merge with the L plane of the full-size image (not the 224 x 224 one)
\* never fails on the shapes, and the colorized image has the height and the
\* width of the input and 3 channels.
C13_OutputHasInputSize ==
    LET h == pipe.image[1]
        w == pipe.image[2]
    IN  /\ pipe.at # "raised"
        /\ pipe.at = "ab" => pipe.ab = << h, w, 2 >>
        /\ pipe.at = "merged" => pipe.L = << h, w >> /\ pipe.ab = << h, w, 2 >>
        /\ pipe.at \in { "merged", "bgr", "clipped", "done" } =>
              pipe.colorized = << h, w, 3 >>

\* witness of C13: an image that is not square and not of the net's size has
\* been colorized
C13_Witness ==
    /\ pipe.at = "done"
    /\ pipe.image[1] # pipe.image[2]
    /\ pipe.colorized = pipe.image

\* ------------------------------------------------------------------ C14
\* C14: whatever the conversion to BGR gives, every stored component is a
\* byte, and it is the clipped value scaled: 0 for anything at or below 0,
\* 255 for anything at or above 1, never a value wrapped around.
C14_ClippedNotWrapped ==
    pipe.at = "done" =>
        /\ pipe.byte \in 0..MaxByte
        /\ pipe.bgr <= 0 => pipe.byte = 0
        /\ pipe.bgr >= Den => pipe.byte = MaxByte
        /\ pipe.bgr \in 0..Den => pipe.byte = (MaxByte * pipe.bgr) \div Den

\* witness of C14: a component above 1 has been stored as 255
C14_Witness ==
    /\ pipe.at = "done"
    /\ pipe.bgr > Den
    /\ pipe.byte = MaxByte

\* ------------------------------------------------------------------ C15
\* C15: while a submitted job is queued or running, the progress label
\* reads "Colorizing..."; it reads "Done" or "Error" only when no job is
\* queued or running.
C15_RunningWhileJobsPending ==
    (Queued \cup Running) # { } => progress_label = "Colorizing..."

\* ------------------------------------------------------------------ C16
\* C16: whenever the save button is enabled there is a colorized image in
\* memory; the button is disabled when the main window is built, only the
\* delivery of a successful job enables it, and _save_image has never run
\* with colorized_image_array None.
C16_SaveEnabledOnlyWithResult ==
    /\ [](save_btn = "normal" => colorized_image_array # 0)
    /\ [](lastSave[1] # "none" => colorized_image_array # 0)
    /\ [][ /\ (phase # "operable" /\ phase' = "operable") =>
                save_btn' = "disabled"
           /\ (save_btn # "normal" /\ save_btn' = "normal") =>
                \E j \in 1..nSubmitted :
                    /\ Succeeded(j)
                    /\ InLog(deliverLog', << "show", j >>) ]_vars

\* witness of C16: a result has been delivered, the button is enabled and the
\* image has been saved
C16_Witness ==
    /\ save_btn = "normal"
    /\ colorized_image_array # 0
    /\ lastSave = << "written", "saved" >>

====
